---- MODULE Spec2Model ----
(***************************************************************************)
(* The primitive TTLV codec of kmip/core/primitives.py as a state machine. *)
(*                                                                         *)
(* A primitive object (obj) is encoded onto, and decoded from, a byte      *)
(* stream (stream).  Python integers are unbounded; they are modelled as   *)
(* a sign and a magnitude bit string (most significant bit first, no       *)
(* leading zero), the representation BigInteger.read/write themselves work *)
(* on, so that 2^31, 2^32, 2^63 and 2^127 are ordinary values.             *)
(***************************************************************************)
EXTENDS Integers, Sequences, FiniteSets, TLC

VARIABLES
    stream,     \* BytearrayStream.buffer: the bytes not yet read
    obj,        \* the primitive object (fields of Base and its subclasses)
    pc,         \* position of the caller / of read() and write()
    err,        \* the exception that ended the last operation, "none" if none
    ret,        \* return value of the last lookahead ("none" if none)
    hexadecimal,\* local of BigInteger.write: the packed value bytes
    built,      \* history: the primitive as its constructor left it
    given,      \* history: the constructor's arguments
    ops,        \* history: the operations completed, in order
    rd,         \* history: the bytes consumed by the current / last decode
    wr,         \* history: the bytes written by the current / last encode
    short,      \* history: the current / last decode got fewer bytes than it asked for
    tamper,     \* history: what the channel did to the encoding
    look,       \* history: the last lookahead call and the stream before it
    replaced,   \* history: the caller assigned obj.value after __init__ / read
    sent,       \* history: the primitives encoded onto the stream before obj
    taken       \* history: the decodes begun on a stream holding several

vars == <<stream, obj, pc, err, ret, hexadecimal, built, given, ops, rd, wr,
          short, tamper, look, replaced, sent, taken>>

(***************************************************************************)
(* Bit strings                                                             *)
(***************************************************************************)
Zeros(n) == [i \in 1..n |-> 0]

Ones(n) == [i \in 1..n |-> 1]

Min(a, b) == IF a < b THEN a ELSE b

\* int(binary, 2) keeps no leading zero: the magnitude of a Python int.
Strip(bits) ==
    IF \A i \in 1..Len(bits) : bits[i] = 0 THEN <<>>
    ELSE LET f == CHOOSE i \in 1..Len(bits) :
                      bits[i] = 1 /\ \A j \in 1..(i - 1) : bits[j] = 0
         IN SubSeq(bits, f, Len(bits))

\* binary.replace('1','i').replace('0','1').replace('i','0')
Flip(bits) == [i \in 1..Len(bits) |-> 1 - bits[i]]

\* str.rfind('0'): the last index holding 0 (1-based here), 0 when there is none
\* (Python: -1).
RFindZero(bits) ==
    IF \E i \in 1..Len(bits) : bits[i] = 0
    THEN CHOOSE i \in 1..Len(bits) :
             bits[i] = 0 /\ \A j \in (i + 1)..Len(bits) : bits[j] = 1
    ELSE 0

\* binary[0:pivot] + '1' + ('0' * len(binary[pivot + 1:])), pivot = rfind('0').
\* With pivot = -1 Python takes binary[0:-1] and len(binary[0:]).
PivotIncrement(bits) ==
    LET p == RFindZero(bits)
        n == Len(bits)
    IN IF p = 0
       THEN SubSeq(bits, 1, n - 1) \o <<1>> \o Zeros(n)
       ELSE SubSeq(bits, 1, p - 1) \o <<1>> \o Zeros(n - p)

\* int(byte, 2) of an 8-character bit string.
ByteOfBits(b) ==
    128 * b[1] + 64 * b[2] + 32 * b[3] + 16 * b[4] + 8 * b[5] + 4 * b[6]
        + 2 * b[7] + b[8]

\* "{0:b}".format(byte), left-padded with '0' to 8 characters.
BitsOfByte(n) ==
    <<(n \div 128) % 2, (n \div 64) % 2, (n \div 32) % 2, (n \div 16) % 2,
      (n \div 8) % 2, (n \div 4) % 2, (n \div 2) % 2, n % 2>>

\* The bytes of a bit string whose length is a multiple of 8.
BytesOfBits(bits) ==
    [k \in 1..(Len(bits) \div 8) |-> ByteOfBits(SubSeq(bits, 8 * k - 7, 8 * k))]

\* The bit string of a byte string.
BitsOfBytes(bytes) ==
    [i \in 1..(8 * Len(bytes)) |->
        BitsOfByte(bytes[((i - 1) \div 8) + 1])[((i - 1) % 8) + 1]]

\* A magnitude of at most 31 bits as a number.
RECURSIVE NatOfBits(_)
NatOfBits(bits) ==
    IF bits = <<>> THEN 0
    ELSE 2 * NatOfBits(SubSeq(bits, 1, Len(bits) - 1)) + bits[Len(bits)]

RECURSIVE BitsOfNat(_)
BitsOfNat(n) ==
    IF n = 0 THEN <<>> ELSE BitsOfNat(n \div 2) \o <<n % 2>>

(***************************************************************************)
(* Python values: None, int, bool, str (code points), bytes                *)
(***************************************************************************)
PyVal(t, neg, d) == [t |-> t, neg |-> neg, d |-> d]

None == PyVal("none", FALSE, <<>>)

PyInt(neg, mag) == PyVal("int", neg, mag)

PyNat(n) == PyInt(FALSE, BitsOfNat(n))

PyBool(b) == PyVal("bool", FALSE, IF b THEN <<1>> ELSE <<>>)

PyStr(s) == PyVal("str", FALSE, s)

PyBytes(s) == PyVal("bytes", FALSE, s)

\* 2^k and 2^k - 1 as magnitudes.
Pow2(k) == <<1>> \o Zeros(k)

Pow2m1(k) == Ones(k)

\* a < b on magnitudes.
MagLess(a, b) ==
    \/ Len(a) < Len(b)
    \/ /\ Len(a) = Len(b)
       /\ \E i \in 1..Len(a) :
              a[i] < b[i] /\ \A j \in 1..(i - 1) : a[j] = b[j]

\* x < y on ints (bool counts as the int it is).
IntLess(x, y) ==
    IF x.neg /\ ~y.neg THEN TRUE
    ELSE IF ~x.neg /\ y.neg THEN FALSE
    ELSE IF x.neg THEN MagLess(y.d, x.d)
    ELSE MagLess(x.d, y.d)

IsIntLike(v) == v.t \in {"int", "bool"}

\* Two's complement of a value at a width that holds it: Python's struct packs an
\* in-range integer this way.
TwosComplement(v, width) ==
    LET padded == Zeros(width - Len(v.d)) \o v.d
    IN IF v.neg THEN PivotIncrement(Flip(padded)) ELSE padded

(***************************************************************************)
(* struct.pack / struct.unpack (network byte order)                        *)
(***************************************************************************)
StructSize(fmt) ==
    CASE fmt \in {"!i", "!I"} -> 4
      [] fmt \in {"!q", "!Q"} -> 8
      [] OTHER -> 1

StructSigned(fmt) == fmt \in {"!i", "!q"}

\* The least and the greatest integer a format packs.
StructMin(fmt) ==
    IF StructSigned(fmt) THEN PyInt(TRUE, Pow2(8 * StructSize(fmt) - 1))
    ELSE PyInt(FALSE, <<>>)

StructMax(fmt) ==
    IF StructSigned(fmt) THEN PyInt(FALSE, Pow2m1(8 * StructSize(fmt) - 1))
    ELSE PyInt(FALSE, Pow2m1(8 * StructSize(fmt)))

\* pack(fmt, v): the bytes, or struct.error (ok = FALSE) when v is no integer, is
\* out of the format's range, or, for '!c', is not a bytes object of length 1.
pack(fmt, v) ==
    IF fmt = "!c"
    THEN IF v.t = "bytes" /\ Len(v.d) = 1
         THEN [ok |-> TRUE, bytes |-> v.d]
         ELSE [ok |-> FALSE, bytes |-> <<>>]
    ELSE IF ~IsIntLike(v) \/ IntLess(v, StructMin(fmt)) \/ IntLess(StructMax(fmt), v)
         THEN [ok |-> FALSE, bytes |-> <<>>]
         ELSE [ok |-> TRUE,
               bytes |-> BytesOfBits(TwosComplement(v, 8 * StructSize(fmt)))]

\* unpack(fmt, data)[0]: the value, or struct.error (ok = FALSE) when data has not
\* exactly the format's size.
unpack(fmt, data) ==
    IF Len(data) # StructSize(fmt) THEN [ok |-> FALSE, val |-> None]
    ELSE IF fmt = "!c" THEN [ok |-> TRUE, val |-> PyBytes(data)]
    ELSE LET bits == BitsOfBytes(data)
         IN IF StructSigned(fmt) /\ bits[1] = 1
            THEN [ok |-> TRUE,
                  val |-> PyInt(TRUE, Strip(PivotIncrement(Flip(bits))))]
            ELSE [ok |-> TRUE, val |-> PyInt(FALSE, Strip(bits))]

(***************************************************************************)
(* The byte stream (kmip.core.utils.BytearrayStream) and the enumerations  *)
(* (kmip.core.enums), which the codec consumes                             *)
(***************************************************************************)
\* read(n): up to n bytes from the front, which it removes.
StreamRead(buf, n) ==
    [data |-> SubSeq(buf, 1, Min(n, Len(buf))),
     rest |-> SubSeq(buf, Min(n, Len(buf)) + 1, Len(buf))]

\* peek(n): up to n bytes from the front, which it leaves.
StreamPeek(buf, n) == SubSeq(buf, 1, Min(n, Len(buf)))

\* peek(): all the bytes left.
StreamPeekAll(buf) == buf

\* write(b): appends.
StreamWrite(buf, b) == buf \o b

\* Tags: the KMIP tag constants, 0x420000 (DEFAULT) to 0x4200A1.
Tags_DEFAULT == 4325376

Tags_LAST == 4325537

Tags == Tags_DEFAULT..Tags_LAST

\* Types: the type codes of KMIP 9.1, and DEFAULT.
Types_DEFAULT == 0

Types_STRUCTURE == 1

Types_INTEGER == 2

Types_LONG_INTEGER == 3

Types_BIG_INTEGER == 4

Types_ENUMERATION == 5

Types_BOOLEAN == 6

Types_TEXT_STRING == 7

Types_BYTE_STRING == 8

Types_DATE_TIME == 9

Types_INTERVAL == 10

Types == Types_DEFAULT..Types_INTERVAL

\* utils.count_bytes(num): the bytes needed to hold num, at least 1.
count_bytes(num) ==
    LET bits == Len(BitsOfNat(num))
    IN IF bits = 0 \/ bits % 8 # 0 THEN (bits \div 8) + 1 ELSE bits \div 8

(***************************************************************************)
(* The primitive classes: constants, constructors, validate                *)
(***************************************************************************)
TAG_SIZE == 3

TYPE_SIZE == 1

LENGTH_SIZE == 4

Integer_LENGTH == 4

LongInteger_LENGTH == 8

Boolean_LENGTH == 8

PADDING_SIZE == 8

\* The word BigInteger.write pads the binary string to, in bits.
BigInteger_WORD == 64

Integer_MIN == PyInt(TRUE, Pow2(31))

Integer_MAX == PyInt(FALSE, Pow2m1(31))

LongInteger_MIN == PyInt(TRUE, Pow2(63))

LongInteger_MAX == PyInt(FALSE, Pow2m1(63))

\* An attribute holding None where the model keeps a number (length,
\* padding_length).
NoneInt == -1

\* A member of an enum.Enum class, by its value.
PyEnum(neg, mag) == PyVal("enum", neg, mag)

\* Enumeration.ENUM_TYPE of the concrete enumeration class modelled: the values of
\* its members (Enumeration itself leaves ENUM_TYPE = None and cannot decode).
ENUM_TYPE == {<<1>>, <<1, 0>>, Pow2(31), Pow2m1(32)}

\* An object before __init__ has set any attribute.
Blank(cls) ==
    [cls |-> cls, tag |-> Tags_DEFAULT, type |-> Types_DEFAULT, length |-> NoneInt,
     value |-> None, padding_length |-> NoneInt, pack_string |-> "", enum |-> None]

\* Base.__init__
Base_init(self, tag, type) ==
    [self EXCEPT !.tag = tag, !.type = type, !.length = NoneInt]

\* Integer.validate without the comparison against Integer.MIN.
Integer_validate_max_only(self) ==
    IF self.value.t = "none" THEN "none"
    ELSE IF self.value.t # "int" THEN "TypeError"
    ELSE IF IntLess(Integer_MAX, self.value) THEN "ValueError"
    ELSE "none"

\* Integer.validate: the bounds are those of a signed 32-bit integer whatever
\* pack_string is.
Integer_validate(self) ==
    IF self.value.t = "none" THEN "none"
    ELSE IF self.value.t # "int" THEN "TypeError"
    ELSE IF IntLess(Integer_MAX, self.value) THEN "ValueError"
    ELSE IF IntLess(self.value, Integer_MIN) THEN "ValueError"
    ELSE "none"

\* LongInteger.validate (isinstance: a bool is an int)
LongInteger_validate(self) ==
    IF self.value.t = "none" THEN "none"
    ELSE IF ~IsIntLike(self.value) THEN "TypeError"
    ELSE IF IntLess(LongInteger_MAX, self.value) THEN "ValueError"
    ELSE IF IntLess(self.value, LongInteger_MIN) THEN "ValueError"
    ELSE "none"

\* BigInteger.validate
BigInteger_validate(self) ==
    IF self.value.t = "none" THEN "none"
    ELSE IF ~IsIntLike(self.value) THEN "TypeError"
    ELSE "none"

\* Enumeration.validate: only the member is looked at, never the value's range.
Enumeration_validate(self) ==
    IF self.enum.t = "none" THEN "none"
    ELSE IF self.enum.t # "enum" THEN "TypeError"
    ELSE "none"

\* Python truth of a value.
Truthy(v) == v.t # "none" /\ v.d # <<>>

\* Boolean.validate
Boolean_validate(self) ==
    IF Truthy(self.value) /\ self.value.t # "bool" THEN "TypeError" ELSE "none"

\* TextString.validate
TextString_validate(self) ==
    IF self.value.t = "none" THEN "none"
    ELSE IF self.value.t # "str" THEN "TypeError"
    ELSE "none"

\* ByteString.validate
ByteString_validate(self) ==
    IF self.value.t = "none" THEN "none"
    ELSE IF self.value.t # "bytes" THEN "TypeError"
    ELSE "none"

\* self.validate(): the method of the object's class.
validate(self) ==
    CASE self.cls \in {"Integer", "Interval"} -> Integer_validate(self)
      [] self.cls = "Enumeration" -> Enumeration_validate(self)
      [] self.cls \in {"LongInteger", "DateTime"} -> LongInteger_validate(self)
      [] self.cls = "BigInteger" -> BigInteger_validate(self)
      [] self.cls = "Boolean" -> Boolean_validate(self)
      [] self.cls = "TextString" -> TextString_validate(self)
      [] OTHER -> ByteString_validate(self)

\* Integer.__init__
Integer_init(self, value, tag, signed) ==
    LET s == [Base_init(self, tag, Types_INTEGER) EXCEPT
                 !.value = IF value.t = "none" THEN PyNat(0) ELSE value,
                 !.length = Integer_LENGTH,
                 !.padding_length = Integer_LENGTH,
                 !.pack_string = IF signed THEN "!i" ELSE "!I"]
    IN [self |-> s, err |-> validate(s)]

\* LongInteger.__init__
LongInteger_init(self, value, tag) ==
    LET s == [Base_init(self, tag, Types_LONG_INTEGER) EXCEPT
                 !.value = value, !.length = LongInteger_LENGTH]
    IN [self |-> s, err |-> validate(s)]

\* BigInteger.__init__
BigInteger_init(self, value, tag) ==
    LET s == [Base_init(self, tag, Types_BIG_INTEGER) EXCEPT !.value = value]
    IN [self |-> s, err |-> validate(s)]

\* Enumeration.__init__
Enumeration_init(self, value, tag) ==
    LET s0 == [self EXCEPT !.enum = value]
        e0 == validate(s0)
        r == Integer_init(s0,
                          IF value.t = "none" THEN None ELSE PyInt(value.neg, value.d),
                          tag, FALSE)
    IN IF e0 # "none" THEN [self |-> s0, err |-> e0]
       ELSE IF r.err # "none" THEN r
       ELSE [self |-> [r.self EXCEPT !.type = Types_ENUMERATION], err |-> "none"]

\* Boolean.__init__
Boolean_init(self, value, tag) ==
    LET s == [Base_init(self, tag, Types_BOOLEAN) EXCEPT
                 !.value = value, !.length = Boolean_LENGTH]
    IN [self |-> s, err |-> validate(s)]

\* The padding a constructor derives from a length.
InitPadding(length) ==
    IF PADDING_SIZE - (length % PADDING_SIZE) = PADDING_SIZE THEN 0
    ELSE PADDING_SIZE - (length % PADDING_SIZE)

\* TextString.__init__
TextString_init(self, value, tag) ==
    LET s == [Base_init(self, tag, Types_TEXT_STRING) EXCEPT
                 !.value = IF value.t = "none" THEN PyStr(<<>>) ELSE value]
        e == validate(s)
    IN IF e # "none" THEN [self |-> s, err |-> e]
       ELSE [self |-> [s EXCEPT !.length = Len(s.value.d),
                                !.padding_length = InitPadding(Len(s.value.d))],
             err |-> "none"]

\* ByteString.__init__
ByteString_init(self, value, tag) ==
    LET s == [Base_init(self, tag, Types_BYTE_STRING) EXCEPT
                 !.value = IF value.t = "none" THEN PyBytes(<<>>) ELSE value]
        e == validate(s)
    IN IF e # "none" THEN [self |-> s, err |-> e]
       ELSE [self |-> [s EXCEPT !.length = Len(s.value.d),
                                !.padding_length = InitPadding(Len(s.value.d))],
             err |-> "none"]

\* DateTime.__init__
DateTime_init(self, value, tag) ==
    LET r == LongInteger_init(self, value, tag)
    IN IF r.err # "none" THEN r
       ELSE [self |-> [r.self EXCEPT !.type = Types_DATE_TIME], err |-> "none"]

\* Interval.__init__: Integer.__init__ with its default signed=True.
Interval_init(self, value, tag) ==
    LET r == Integer_init(self, value, tag, TRUE)
    IN IF r.err # "none" THEN r
       ELSE [self |-> [r.self EXCEPT !.type = Types_INTERVAL], err |-> "none"]

\* cls(value, tag) or, for Integer, cls(value, tag, signed).
Construct(cls, value, tag, signed) ==
    CASE cls = "Integer" -> Integer_init(Blank(cls), value, tag, signed)
      [] cls = "LongInteger" -> LongInteger_init(Blank(cls), value, tag)
      [] cls = "BigInteger" -> BigInteger_init(Blank(cls), value, tag)
      [] cls = "Enumeration" -> Enumeration_init(Blank(cls), value, tag)
      [] cls = "Boolean" -> Boolean_init(Blank(cls), value, tag)
      [] cls = "TextString" -> TextString_init(Blank(cls), value, tag)
      [] cls = "ByteString" -> ByteString_init(Blank(cls), value, tag)
      [] cls = "DateTime" -> DateTime_init(Blank(cls), value, tag)
      [] OTHER -> Interval_init(Blank(cls), value, tag)

\* The value a constructor takes when none is passed.
DefaultValue(cls) ==
    CASE cls \in {"LongInteger", "BigInteger"} -> PyNat(0)
      [] cls = "Boolean" -> PyBool(TRUE)
      [] OTHER -> None

(***************************************************************************)
(* Decoding.  Each operator is one method: it takes the object and the     *)
(* stream and gives the object and the stream as the method leaves them,   *)
(* the exception raised ("none" if none), and whether a read returned      *)
(* fewer bytes than asked for.                                             *)
(***************************************************************************)
Got(self, buf, e, sh) == [self |-> self, stream |-> buf, err |-> e, short |-> sh]

\* Base.read_tag: no check of the number of bytes read; an unknown tag fails in
\* Tags(tag).
read_tag(self, istream) ==
    LET r == StreamRead(istream, TAG_SIZE)
        u == unpack("!I", <<0>> \o SubSeq(r.data, 1, Min(TAG_SIZE, Len(r.data))))
        sh == Len(r.data) < TAG_SIZE
    IN IF ~u.ok THEN Got(self, r.rest, "struct.error", sh)
       ELSE IF NatOfBits(u.val.d) \notin Tags THEN Got(self, r.rest, "ValueError", sh)
       ELSE IF NatOfBits(u.val.d) # self.tag
            THEN Got(self, r.rest, "ReadValueError", sh)
       ELSE Got(self, r.rest, "none", sh)

\* Base.read_type
read_type(self, istream) ==
    LET r == StreamRead(istream, TYPE_SIZE)
        u == unpack("!B", r.data)
        sh == Len(r.data) < TYPE_SIZE
    IN IF Len(r.data) # TYPE_SIZE THEN Got(self, r.rest, "ReadValueError", sh)
       ELSE IF NatOfBits(u.val.d) \notin Types THEN Got(self, r.rest, "ValueError", sh)
       ELSE IF NatOfBits(u.val.d) # self.type
            THEN Got(self, r.rest, "ReadValueError", sh)
       ELSE Got(self, r.rest, "none", sh)

\* Base.read_length
read_length(self, istream) ==
    LET r == StreamRead(istream, LENGTH_SIZE)
        u == unpack("!I", r.data)
        sh == Len(r.data) < LENGTH_SIZE
    IN IF Len(r.data) # LENGTH_SIZE THEN Got(self, r.rest, "ReadValueError", sh)
       ELSE Got([self EXCEPT !.length = NatOfBits(u.val.d)], r.rest, "none", sh)

\* Integer.read_value
Integer_read_value(self, istream) ==
    IF self.length # Integer_LENGTH THEN Got(self, istream, "ReadValueError", FALSE)
    ELSE
    LET r1 == StreamRead(istream, self.length)
        u1 == unpack(self.pack_string, r1.data)
        s1 == [self EXCEPT !.value = u1.val]
        r2 == StreamRead(r1.rest, self.padding_length)
        u2 == unpack(self.pack_string, r2.data)
    IN IF ~u1.ok THEN Got(self, r1.rest, "struct.error", TRUE)
       ELSE IF ~u2.ok THEN Got(s1, r2.rest, "struct.error", TRUE)
       ELSE IF u2.val.d # <<>> THEN Got(s1, r2.rest, "ReadValueError", FALSE)
       ELSE Got(s1, r2.rest, validate(s1), FALSE)

\* Enumeration.read after Integer.read: self.enum = self.ENUM_TYPE(self.value)
Enumeration_read_enum(self) ==
    IF self.value.neg \/ self.value.d \notin ENUM_TYPE
    THEN [self |-> self, err |-> "ValueError"]
    ELSE LET s == [self EXCEPT !.enum = PyEnum(self.value.neg, self.value.d)]
         IN [self |-> s, err |-> validate(s)]

\* LongInteger.read_value
LongInteger_read_value(self, istream) ==
    IF self.length # LongInteger_LENGTH
    THEN Got(self, istream, "InvalidPrimitiveLength", FALSE)
    ELSE
    LET r == StreamRead(istream, self.length)
        u == unpack("!q", r.data)
        s1 == [self EXCEPT !.value = u.val]
    IN IF ~u.ok THEN Got(self, r.rest, "struct.error", TRUE)
       ELSE Got(s1, r.rest, validate(s1), FALSE)

\* BigInteger.read after Base.read (lines 413-443)
BigInteger_read_value(self, istream) ==
    IF self.length % 8 # 0 THEN Got(self, istream, "InvalidPrimitiveLength", FALSE)
    ELSE
    LET r == StreamRead(istream, self.length)
        binary == BitsOfBytes(r.data)
        negative == binary[1] = 1
        magnitude == IF negative THEN PivotIncrement(Flip(binary)) ELSE binary
    IN IF Len(r.data) < self.length THEN Got(self, r.rest, "struct.error", TRUE)
       ELSE IF binary = <<>> THEN Got(self, r.rest, "IndexError", FALSE)
       ELSE Got([self EXCEPT !.value = PyInt(negative /\ Strip(magnitude) # <<>>,
                                             Strip(magnitude))],
                r.rest, "none", FALSE)

\* Boolean.read_value: the header's length is not looked at.
Boolean_read_value(self, istream) ==
    LET r == StreamRead(istream, Boolean_LENGTH)
        u == unpack("!Q", r.data)
    IN IF ~u.ok THEN Got(self, r.rest, "struct.error", TRUE)
       ELSE IF u.val.d = <<1>>
            THEN LET s == [self EXCEPT !.value = PyBool(TRUE)]
                 IN Got(s, r.rest, validate(s), FALSE)
       ELSE IF u.val.d = <<>>
            THEN LET s == [self EXCEPT !.value = PyBool(FALSE)]
                 IN Got(s, r.rest, validate(s), FALSE)
       ELSE Got(self, r.rest, "ValueError", FALSE)

\* ReadPadding checking the first pad byte only.
ReadPadding_first_only(self, buf, n) ==
    IF n > 0 /\ Len(buf) > 0 /\ buf[1] # 0
    THEN Got(self, SubSeq(buf, 2, Len(buf)), "ReadValueError", FALSE)
    ELSE IF Len(buf) < n THEN Got(self, <<>>, "struct.error", TRUE)
    ELSE Got(self, SubSeq(buf, n + 1, Len(buf)), "none", FALSE)

\* The padding loop of TextString.read_value and ByteString.read_value: n times,
\* read one byte, unpack it, fail if it is not 0.
ReadPadding(self, buf, n) ==
    LET avail == Min(n, Len(buf))
        bad == {i \in 1..avail : buf[i] # 0}
        first == CHOOSE i \in bad : \A j \in bad : i <= j
    IN IF bad # {}
       THEN Got(self, SubSeq(buf, first + 1, Len(buf)), "ReadValueError", FALSE)
       ELSE IF Len(buf) < n THEN Got(self, <<>>, "struct.error", TRUE)
       ELSE Got(self, SubSeq(buf, n + 1, Len(buf)), "none", FALSE)

\* TextString.read_value reading the padding also when it computes 8.
TextString_read_value_pad8(self, istream) ==
    LET avail == Min(self.length, Len(istream))
        bad == {i \in 1..avail : istream[i] >= 128}
        first == CHOOSE i \in bad : \A j \in bad : i <= j
        padding == PADDING_SIZE - (self.length % PADDING_SIZE)
        s1 == [self EXCEPT !.value = PyStr(SubSeq(istream, 1, avail))]
        s2 == [s1 EXCEPT !.padding_length = padding]
        rest == SubSeq(istream, avail + 1, Len(istream))
    IN IF bad # {}
       THEN Got([self EXCEPT !.value = PyStr(SubSeq(istream, 1, first - 1))],
                SubSeq(istream, first + 1, Len(istream)), "UnicodeDecodeError", FALSE)
       ELSE IF Len(istream) < self.length THEN Got(s1, rest, "struct.error", TRUE)
       ELSE IF padding <= PADDING_SIZE THEN ReadPadding(s2, rest, padding)
       ELSE Got(s2, rest, "none", FALSE)

\* TextString.read_value (Python 3: each byte is decoded on its own, so a byte
\* above 0x7F raises UnicodeDecodeError).  padding_length is left at 8 when the
\* length is a multiple of 8.
TextString_read_value(self, istream) ==
    LET avail == Min(self.length, Len(istream))
        bad == {i \in 1..avail : istream[i] >= 128}
        first == CHOOSE i \in bad : \A j \in bad : i <= j
        padding == PADDING_SIZE - (self.length % PADDING_SIZE)
        s1 == [self EXCEPT !.value = PyStr(SubSeq(istream, 1, avail))]
        s2 == [s1 EXCEPT !.padding_length = padding]
        rest == SubSeq(istream, avail + 1, Len(istream))
    IN IF bad # {}
       THEN Got([self EXCEPT !.value = PyStr(SubSeq(istream, 1, first - 1))],
                SubSeq(istream, first + 1, Len(istream)), "UnicodeDecodeError", FALSE)
       ELSE IF Len(istream) < self.length THEN Got(s1, rest, "struct.error", TRUE)
       ELSE IF padding < PADDING_SIZE THEN ReadPadding(s2, rest, padding)
       ELSE Got(s2, rest, "none", FALSE)

\* ByteString.read_value
ByteString_read_value(self, istream) ==
    LET avail == Min(self.length, Len(istream))
        padding == InitPadding(self.length)
        s1 == [self EXCEPT !.value = PyBytes(SubSeq(istream, 1, avail))]
        s2 == [s1 EXCEPT !.padding_length = padding]
        rest == SubSeq(istream, avail + 1, Len(istream))
    IN IF Len(istream) < self.length THEN Got(self, rest, "IndexError", TRUE)
       ELSE IF padding < PADDING_SIZE THEN ReadPadding(s2, rest, padding)
       ELSE Got(s2, rest, "none", FALSE)

\* What read() does after Base.read, by class: read_value, then for Enumeration
\* the lookup in ENUM_TYPE and for TextString validate.
read_value(self, istream) ==
    CASE self.cls \in {"Integer", "Interval"} -> Integer_read_value(self, istream)
      [] self.cls = "Enumeration" ->
            LET g == Integer_read_value(self, istream)
                e == Enumeration_read_enum(g.self)
            IN IF g.err # "none" THEN g ELSE Got(e.self, g.stream, e.err, g.short)
      [] self.cls \in {"LongInteger", "DateTime"} ->
            LongInteger_read_value(self, istream)
      [] self.cls = "BigInteger" -> BigInteger_read_value(self, istream)
      [] self.cls = "Boolean" -> Boolean_read_value(self, istream)
      [] self.cls = "TextString" ->
            LET g == TextString_read_value(self, istream)
            IN IF g.err # "none" THEN g
               ELSE Got(g.self, g.stream, validate(g.self), g.short)
      [] OTHER -> ByteString_read_value(self, istream)

(***************************************************************************)
(* Encoding.  Each operator gives the object and the stream as the method  *)
(* leaves them and the exception raised.                                   *)
(***************************************************************************)
Put(self, buf, e) == [self |-> self, stream |-> buf, err |-> e]

\* Base.write_tag writing the 4 packed bytes, without the slice [1:].
write_tag_unsliced(self, ostream) ==
    Put(self, StreamWrite(ostream, pack("!I", PyNat(self.tag)).bytes), "none")

\* Base.write_tag
write_tag(self, ostream) ==
    Put(self, StreamWrite(ostream, Tail(pack("!I", PyNat(self.tag)).bytes)), "none")

\* Base.write_type
write_type(self, ostream) ==
    IF self.type \notin Types THEN Put(self, ostream, "TypeError")
    ELSE Put(self, StreamWrite(ostream, pack("!B", PyNat(self.type)).bytes), "none")

\* Base.write_length
write_length(self, ostream) ==
    IF self.length = NoneInt THEN Put(self, ostream, "TypeError")
    ELSE IF count_bytes(self.length) > LENGTH_SIZE
         THEN Put(self, ostream, "WriteOverflowError")
    ELSE Put(self, StreamWrite(ostream, pack("!I", PyNat(self.length)).bytes), "none")

\* Integer.write_value
Integer_write_value(self, ostream) ==
    LET v == pack(self.pack_string, self.value)
        z == pack(self.pack_string, PyNat(0))
    IN IF ~v.ok THEN Put(self, ostream, "struct.error")
       ELSE Put(self, StreamWrite(StreamWrite(ostream, v.bytes), z.bytes), "none")

\* LongInteger.write_value
LongInteger_write_value(self, ostream) ==
    LET v == pack("!q", self.value)
    IN IF ~v.ok THEN Put(self, ostream, "struct.error")
       ELSE Put(self, StreamWrite(ostream, v.bytes), "none")

\* Boolean.write_value
Boolean_write_value(self, ostream) ==
    LET v == pack("!Q", self.value)
    IN IF ~v.ok THEN Put(self, ostream, "struct.error")
       ELSE Put(self, StreamWrite(ostream, v.bytes), "none")

\* BigInteger.write before Base.write (lines 455-474): the value bytes.
BigInteger_hexadecimal(value) ==
    LET digits == IF value.d = <<>> THEN <<0>> ELSE value.d
        padded == Zeros(BigInteger_WORD - (Len(digits) % BigInteger_WORD)) \o digits
        binary == IF value.neg THEN PivotIncrement(Flip(padded)) ELSE padded
    IN BytesOfBits(binary)

\* char.encode(): UTF-8 of one code point below 0x10000.
Utf8(cp) ==
    IF cp < 128 THEN <<cp>>
    ELSE IF cp < 2048 THEN <<192 + (cp \div 64), 128 + (cp % 64)>>
    ELSE <<224 + (cp \div 4096), 128 + ((cp \div 64) % 64), 128 + (cp % 64)>>

\* TextString.write_value (Python 3): pack('!c', c) takes one byte, so the first
\* character above 0x7F raises struct.error after the characters before it were
\* written.
TextString_write_value(self, ostream) ==
    LET chars == self.value.d
        bad == {i \in 1..Len(chars) : Len(Utf8(chars[i])) # 1}
        first == CHOOSE i \in bad : \A j \in bad : i <= j
    IN IF bad # {}
       THEN Put(self, StreamWrite(ostream, SubSeq(chars, 1, first - 1)), "struct.error")
       ELSE IF self.padding_length = NoneInt
            THEN Put(self, StreamWrite(ostream, chars), "TypeError")
       ELSE Put(self, StreamWrite(StreamWrite(ostream, chars),
                                  Zeros(self.padding_length)), "none")

\* ByteString.write_value
ByteString_write_value(self, ostream) ==
    IF self.padding_length = NoneInt
    THEN Put(self, StreamWrite(ostream, self.value.d), "TypeError")
    ELSE Put(self, StreamWrite(StreamWrite(ostream, self.value.d),
                               Zeros(self.padding_length)), "none")

\* What write() does after Base.write, by class; hex is BigInteger.write's local.
write_value(self, ostream, hex) ==
    CASE self.cls \in {"Integer", "Interval", "Enumeration"} ->
            Integer_write_value(self, ostream)
      [] self.cls \in {"LongInteger", "DateTime"} ->
            LongInteger_write_value(self, ostream)
      [] self.cls = "BigInteger" -> Put(self, StreamWrite(ostream, hex), "none")
      [] self.cls = "Boolean" -> Boolean_write_value(self, ostream)
      [] self.cls = "TextString" -> TextString_write_value(self, ostream)
      [] OTHER -> ByteString_write_value(self, ostream)

(***************************************************************************)
(* Lookahead and the drained-stream check                                  *)
(***************************************************************************)
\* is_tag_next taking the 3 bytes with read() instead of peek().
is_tag_next_reading(tag, buf) ==
    LET r == StreamRead(buf, TAG_SIZE)
    IN [ret |-> IF Len(r.data) # TAG_SIZE THEN FALSE
                ELSE NatOfBits(unpack("!I", <<0>> \o r.data).val.d) = tag,
        stream |-> r.rest]

\* Base.is_tag_next
is_tag_next(tag, buf) ==
    LET next_tag == StreamPeek(buf, TAG_SIZE)
    IN [ret |-> IF Len(next_tag) # TAG_SIZE THEN FALSE
                ELSE NatOfBits(unpack("!I", <<0>> \o next_tag).val.d) = tag,
        stream |-> buf]

\* Base.is_type_next
is_type_next(kmip_type, buf) ==
    LET tt == StreamPeek(buf, TAG_SIZE + TYPE_SIZE)
    IN [ret |-> IF Len(tt) # TAG_SIZE + TYPE_SIZE THEN FALSE
                ELSE NatOfBits(unpack("!B", SubSeq(tt, TAG_SIZE + 1, Len(tt))).val.d)
                         = kmip_type,
        stream |-> buf]

\* Base.is_oversized: StreamNotEmptyError carrying the number of bytes left.
is_oversized(buf) ==
    LET extra == Len(StreamPeekAll(buf))
    IN [err |-> IF extra > 0 THEN "StreamNotEmptyError" ELSE "none", extra |-> extra]

(***************************************************************************)
(* The inputs explored                                                     *)
(***************************************************************************)
\* The operations one run performs (encode, decode, encode again).
MaxOps == 3

Classes ==
    {"Integer", "LongInteger", "BigInteger", "Enumeration", "Boolean",
     "TextString", "ByteString", "DateTime", "Interval"}

\* -(2^k + 1)
BelowMin(k) == PyInt(TRUE, <<1>> \o Zeros(k - 1) \o <<1>>)

\* Around the bounds of the 32-bit formats.
Sample32 ==
    {BelowMin(31), PyInt(TRUE, Pow2(31)), PyInt(TRUE, <<1>>), PyNat(0), PyNat(8),
     PyInt(FALSE, Pow2m1(31)), PyInt(FALSE, Pow2(31)), PyInt(FALSE, Pow2m1(32)),
     PyInt(FALSE, Pow2(32))}

\* Around the bounds of the 64-bit formats.
Sample64 ==
    {BelowMin(63), PyInt(TRUE, Pow2(63)), PyInt(TRUE, <<1>>), PyNat(0), PyNat(1),
     PyInt(FALSE, Pow2m1(63)), PyInt(FALSE, Pow2(63))}

\* Around the word boundaries of BigInteger.
SampleBig ==
    {PyNat(0), PyNat(1), PyInt(TRUE, <<1>>), PyNat(255), PyInt(TRUE, Pow2(7)),
     PyInt(FALSE, Pow2m1(63)), PyInt(FALSE, Pow2(63)), PyInt(TRUE, Pow2(63)),
     BelowMin(63), PyInt(FALSE, Pow2m1(64)), PyInt(TRUE, Pow2(64))}

\* "", "A", "ABCDEFGH", "Hello World", and U+00E9.
SampleText ==
    {PyStr(<<>>), PyStr(<<65>>), PyStr(<<65, 66, 67, 68, 69, 70, 71, 72>>),
     PyStr(<<72, 101, 108, 108, 111, 32, 87, 111, 114, 108, 100>>),
     PyStr(<<233>>)}

SampleBytes ==
    {PyBytes(<<>>), PyBytes(<<1>>), PyBytes(<<255, 0, 128>>),
     PyBytes(<<1, 2, 3, 4, 5, 6, 7, 8>>),
     PyBytes(<<1, 2, 3, 4, 5, 6, 7, 8, 9>>)}

Values(cls) ==
    CASE cls \in {"Integer", "Interval"} -> Sample32
      [] cls \in {"LongInteger", "DateTime"} -> Sample64
      [] cls = "BigInteger" -> SampleBig
      [] cls = "Enumeration" -> {PyEnum(FALSE, m) : m \in ENUM_TYPE}
      [] cls = "Boolean" -> {PyBool(TRUE), PyBool(FALSE)}
      [] cls = "TextString" -> SampleText
      [] OTHER -> SampleBytes

\* The classes whose length and padding depend on the value.
VariableLength == {"TextString", "ByteString", "BigInteger"}

\* The tag the primitives are built with (0x420020).
UsedTags == {4325408}

\* The arguments of the lookahead calls.
LookTags == {4325408, Tags_DEFAULT}

LookTypes == {Types_INTEGER, Types_TEXT_STRING}

\* The bytes the channel may put in place of one byte of an encoding.
TamperBytes == {0, 1, 128, 255}

NoObject == Blank("none")

NoTamper == [kind |-> "none", pos |-> 0, byte |-> 0]

NoLook == [op |-> "none", arg |-> 0, before |-> <<>>]

(***************************************************************************)
(* The state machine                                                       *)
(***************************************************************************)
Init ==
    /\ stream = <<>>
    /\ obj = NoObject
    /\ pc = "new"
    /\ err = "none"
    /\ ret = <<>>
    /\ hexadecimal = <<>>
    /\ built = NoObject
    /\ given = [cls |-> "none", value |-> None, tag |-> Tags_DEFAULT, signed |-> TRUE]
    /\ ops = <<>>
    /\ rd = <<>>
    /\ wr = <<>>
    /\ short = FALSE
    /\ tamper = NoTamper
    /\ look = NoLook
    /\ replaced = FALSE
    /\ sent = <<>>
    /\ taken = 0

\* The bytes an operation took from the front of the stream.
Consumed(before, after) == SubSeq(before, 1, Len(before) - Len(after))

\* The bytes an operation appended to the stream.
Appended(before, after) == SubSeq(after, Len(before) + 1, Len(after))

\* p = cls(value, tag) on a new, empty stream.
New(cls, value, tag, signed) ==
    /\ pc = "new"
    /\ LET r == Construct(cls, value, tag, signed)
       IN /\ obj' = IF r.err = "none" THEN r.self ELSE NoObject
          /\ built' = obj'
          /\ err' = r.err
          /\ pc' = IF r.err = "none" THEN "built" ELSE "rejected"
    /\ given' = [cls |-> cls, value |-> value, tag |-> tag, signed |-> signed]
    /\ ret' = <<>>
    /\ look' = NoLook
    /\ UNCHANGED <<stream, hexadecimal, ops, rd, wr, short, tamper, replaced,
                   sent, taken>>

\* write(): what precedes Base.write (BigInteger packs its value and sets its
\* length), then write_tag.
WriteTag ==
    /\ pc \in {"built", "decoded", "assigned"}
    /\ Len(ops) < MaxOps
    /\ LET hex == IF obj.cls = "BigInteger" THEN BigInteger_hexadecimal(obj.value)
                  ELSE <<>>
           self == IF obj.cls = "BigInteger" THEN [obj EXCEPT !.length = Len(hex)]
                   ELSE obj
           p == write_tag(self, stream)
       IN /\ hexadecimal' = hex
          /\ obj' = p.self
          /\ stream' = p.stream
          /\ wr' = Appended(stream, p.stream)
          /\ err' = p.err
          /\ pc' = IF p.err = "none" THEN "w_type" ELSE "failed"
    /\ ret' = <<>>
    /\ look' = NoLook
    /\ UNCHANGED <<built, given, ops, rd, short, tamper, replaced, sent, taken>>

WriteType ==
    /\ pc = "w_type"
    /\ LET p == write_type(obj, stream)
       IN /\ obj' = p.self
          /\ stream' = p.stream
          /\ wr' = wr \o Appended(stream, p.stream)
          /\ err' = p.err
          /\ pc' = IF p.err = "none" THEN "w_length" ELSE "failed"
    /\ UNCHANGED <<ret, hexadecimal, built, given, ops, rd, short, tamper,
                   look, replaced, sent, taken>>

WriteLength ==
    /\ pc = "w_length"
    /\ LET p == write_length(obj, stream)
       IN /\ obj' = p.self
          /\ stream' = p.stream
          /\ wr' = wr \o Appended(stream, p.stream)
          /\ err' = p.err
          /\ pc' = IF p.err = "none" THEN "w_value" ELSE "failed"
    /\ UNCHANGED <<ret, hexadecimal, built, given, ops, rd, short, tamper,
                   look, replaced, sent, taken>>

WriteValue ==
    /\ pc = "w_value"
    /\ LET p == write_value(obj, stream, hexadecimal)
       IN /\ obj' = p.self
          /\ stream' = p.stream
          /\ wr' = wr \o Appended(stream, p.stream)
          /\ err' = p.err
          /\ pc' = IF p.err = "none" THEN "written" ELSE "failed"
          /\ ops' = IF p.err = "none" THEN Append(ops, "encode") ELSE ops
    /\ UNCHANGED <<ret, hexadecimal, built, given, rd, short, tamper, look,
                   replaced, sent, taken>>

\* p.value = value: the caller assigns the attribute of a primitive it built or
\* decoded; no other attribute changes.
SetValue(value) ==
    /\ pc \in {"built", "decoded"}
    /\ Len(ops) < MaxOps
    /\ obj.cls \in VariableLength
    /\ ~replaced
    /\ tamper = NoTamper
    /\ value # obj.value
    /\ obj' = [obj EXCEPT !.value = value]
    /\ pc' = "assigned"
    /\ replaced' = TRUE
    /\ ret' = <<>>
    /\ look' = NoLook
    /\ UNCHANGED <<stream, err, hexadecimal, built, given, ops, rd, wr, short,
                   tamper, sent, taken>>

\* The channel cuts the first encoding short.
Truncate(n) ==
    /\ pc = "written"
    /\ ops = <<"encode">>
    /\ tamper = NoTamper
    /\ ~replaced
    /\ n < Len(stream)
    /\ stream' = SubSeq(stream, 1, n)
    /\ tamper' = [kind |-> "truncate", pos |-> n, byte |-> 0]
    /\ ret' = <<>>
    /\ look' = NoLook
    /\ UNCHANGED <<obj, pc, err, hexadecimal, built, given, ops, rd, wr, short,
                   replaced, sent, taken>>

\* The channel replaces one byte of the first encoding.  The length field stays
\* below 2^31.
Overwrite(i, b) ==
    /\ pc = "written"
    /\ ops = <<"encode">>
    /\ tamper = NoTamper
    /\ ~replaced
    /\ i \in 1..Len(stream)
    /\ stream[i] # b
    /\ ~(i = TAG_SIZE + TYPE_SIZE + 1 /\ b >= 128)
    /\ stream' = [stream EXCEPT ![i] = b]
    /\ tamper' = [kind |-> "overwrite", pos |-> i, byte |-> b]
    /\ ret' = <<>>
    /\ look' = NoLook
    /\ UNCHANGED <<obj, pc, err, hexadecimal, built, given, ops, rd, wr, short,
                   replaced, sent, taken>>

\* q = cls(tag=tag): the primitive that will decode, of the class and tag of the
\* one encoded.
Receive ==
    /\ pc = "written"
    /\ Len(ops) < MaxOps
    /\ obj' = Construct(given.cls, DefaultValue(given.cls), given.tag,
                        given.signed).self
    /\ pc' = "r_tag"
    /\ rd' = <<>>
    /\ short' = FALSE
    /\ ret' = <<>>
    /\ look' = NoLook
    /\ UNCHANGED <<stream, err, hexadecimal, built, given, ops, wr, tamper,
                   replaced, sent, taken>>

ReadTag ==
    /\ pc = "r_tag"
    /\ LET g == read_tag(obj, stream)
       IN /\ obj' = g.self
          /\ stream' = g.stream
          /\ rd' = rd \o Consumed(stream, g.stream)
          /\ short' = g.short
          /\ err' = g.err
          /\ pc' = IF g.err = "none" THEN "r_type" ELSE "failed"
    /\ UNCHANGED <<ret, hexadecimal, built, given, ops, wr, tamper, look,
                   replaced, sent, taken>>

ReadType ==
    /\ pc = "r_type"
    /\ LET g == read_type(obj, stream)
       IN /\ obj' = g.self
          /\ stream' = g.stream
          /\ rd' = rd \o Consumed(stream, g.stream)
          /\ short' = g.short
          /\ err' = g.err
          /\ pc' = IF g.err = "none" THEN "r_length" ELSE "failed"
    /\ UNCHANGED <<ret, hexadecimal, built, given, ops, wr, tamper, look,
                   replaced, sent, taken>>

ReadLength ==
    /\ pc = "r_length"
    /\ LET g == read_length(obj, stream)
       IN /\ obj' = g.self
          /\ stream' = g.stream
          /\ rd' = rd \o Consumed(stream, g.stream)
          /\ short' = g.short
          /\ err' = g.err
          /\ pc' = IF g.err = "none" THEN "r_value" ELSE "failed"
    /\ UNCHANGED <<ret, hexadecimal, built, given, ops, wr, tamper, look,
                   replaced, sent, taken>>

ReadValue ==
    /\ pc = "r_value"
    /\ LET g == read_value(obj, stream)
       IN /\ obj' = g.self
          /\ stream' = g.stream
          /\ rd' = rd \o Consumed(stream, g.stream)
          /\ short' = g.short
          /\ err' = g.err
          /\ pc' = IF g.err = "none" THEN "decoded" ELSE "failed"
          /\ ops' = IF g.err = "none" THEN Append(ops, "decode") ELSE ops
    /\ UNCHANGED <<ret, hexadecimal, built, given, wr, tamper, look, replaced,
                   sent, taken>>

\* Base.is_tag_next(tag, stream), between two operations
IsTagNext(tag) ==
    /\ pc \in {"new", "written", "decoded"}
    /\ LET r == is_tag_next(tag, stream)
       IN /\ ret' = <<r.ret>>
          /\ stream' = r.stream
    /\ look' = [op |-> "is_tag_next", arg |-> tag, before |-> stream]
    /\ UNCHANGED <<obj, pc, err, hexadecimal, built, given, ops, rd, wr, short,
                   tamper, replaced, sent, taken>>

\* Base.is_type_next(kmip_type, stream), between two operations
IsTypeNext(kmip_type) ==
    /\ pc \in {"new", "written", "decoded"}
    /\ LET r == is_type_next(kmip_type, stream)
       IN /\ ret' = <<r.ret>>
          /\ stream' = r.stream
    /\ look' = [op |-> "is_type_next", arg |-> kmip_type, before |-> stream]
    /\ UNCHANGED <<obj, pc, err, hexadecimal, built, given, ops, rd, wr, short,
                   tamper, replaced, sent, taken>>

\* self.is_oversized(stream) after a decode
IsOversized ==
    /\ pc = "decoded"
    /\ err' = is_oversized(stream).err
    /\ pc' = "checked"
    /\ ret' = <<>>
    /\ look' = NoLook
    /\ UNCHANGED <<stream, obj, hexadecimal, built, given, ops, rd, wr, short,
                   tamper, replaced, sent, taken>>

Next ==
    \/ \E cls \in Classes : \E value \in Values(cls) : \E tag \in UsedTags :
           \E signed \in (IF cls = "Integer" THEN BOOLEAN ELSE {TRUE}) :
               New(cls, value, tag, signed)
    \/ WriteTag
    \/ WriteType
    \/ WriteLength
    \/ WriteValue
    \/ \E value \in Values(obj.cls) : SetValue(value)
    \/ \E n \in 0..31 : Truncate(n)
    \/ \E i \in 1..32 : \E b \in TamperBytes : Overwrite(i, b)
    \/ Receive
    \/ ReadTag
    \/ ReadType
    \/ ReadLength
    \/ ReadValue
    \/ \E tag \in LookTags : IsTagNext(tag)
    \/ \E kmip_type \in LookTypes : IsTypeNext(kmip_type)
    \/ IsOversized

Spec == Init /\ [][Next]_vars

(***************************************************************************)
(* Several primitives on one stream: each is built and encoded after the   *)
(* one before it, then each is decoded by a new primitive of its class and *)
(* tag, in the order of the encodings                                      *)
(***************************************************************************)
\* The primitives one stream carries.
MaxSeq == 2

\* The values built for a stream of several primitives, all of which encode.
SeqValues(cls) ==
    CASE cls = "Integer" -> {PyNat(8), PyInt(TRUE, <<1>>)}
      [] cls = "Interval" -> {PyNat(8)}
      [] cls = "LongInteger" -> {PyInt(TRUE, Pow2(63))}
      [] cls = "DateTime" -> {PyNat(1)}
      [] cls = "BigInteger" -> {PyNat(255), PyInt(TRUE, Pow2(63))}
      [] cls = "Enumeration" -> {PyEnum(FALSE, Pow2(31))}
      [] cls = "Boolean" -> {PyBool(FALSE)}
      [] cls = "TextString" ->
            {PyStr(<<>>), PyStr(<<65, 66, 67, 68, 69, 70, 71, 72>>),
             PyStr(<<72, 101, 108, 108, 111, 32, 87, 111, 114, 108, 100>>)}
      [] OTHER -> {PyBytes(<<255, 0, 128>>), PyBytes(<<1, 2, 3, 4, 5, 6, 7, 8>>)}

\* The primitive just encoded, after those encoded before it.
Encoded == Append(sent, [given |-> given, built |-> built, wr |-> wr])

\* p = cls(value, tag), the first primitive or, the stream kept, the next one.
SeqNew(cls, value, tag, signed) ==
    /\ pc \in {"new", "written"}
    /\ taken = 0
    /\ sent' = IF pc = "written" THEN Encoded ELSE sent
    /\ Len(sent') < MaxSeq
    /\ LET r == Construct(cls, value, tag, signed)
       IN /\ obj' = IF r.err = "none" THEN r.self ELSE NoObject
          /\ built' = obj'
          /\ err' = r.err
          /\ pc' = IF r.err = "none" THEN "built" ELSE "rejected"
    /\ given' = [cls |-> cls, value |-> value, tag |-> tag, signed |-> signed]
    /\ ret' = <<>>
    /\ look' = NoLook
    /\ UNCHANGED <<stream, hexadecimal, ops, rd, wr, short, tamper, replaced,
                   taken>>

\* q = cls(tag=tag): the primitive that decodes the next encoding of the stream,
\* of the class and tag of the primitive encoded at that place.
SeqReceive ==
    /\ \/ pc = "written" /\ taken = 0
       \/ pc \in {"decoded", "checked"} /\ taken > 0
    /\ sent' = IF pc = "written" THEN Encoded ELSE sent
    /\ taken < Len(sent')
    /\ taken' = taken + 1
    /\ LET g == sent'[taken'].given
       IN obj' = Construct(g.cls, DefaultValue(g.cls), g.tag, g.signed).self
    /\ pc' = "r_tag"
    /\ rd' = <<>>
    /\ short' = FALSE
    /\ ret' = <<>>
    /\ look' = NoLook
    /\ UNCHANGED <<stream, err, hexadecimal, built, given, ops, wr, tamper,
                   replaced>>

SeqNext ==
    \/ \E cls \in Classes : \E value \in SeqValues(cls) : \E tag \in UsedTags :
           SeqNew(cls, value, tag, TRUE)
    \/ taken = 0 /\ WriteTag
    \/ WriteType
    \/ WriteLength
    \/ WriteValue
    \/ SeqReceive
    \/ ReadTag
    \/ ReadType
    \/ ReadLength
    \/ ReadValue
    \/ IsOversized

SeqSpec == Init /\ [][SeqNext]_vars

(***************************************************************************)
(* What the wire format of KMIP 9.1 asks for, stated without the codec     *)
(***************************************************************************)
TagBytes(tag) == <<tag \div 65536, (tag \div 256) % 256, tag % 256>>

LengthBytes(n) ==
    <<n \div 16777216, (n \div 65536) % 256, (n \div 256) % 256, n % 256>>

Header(tag, type, length) == TagBytes(tag) \o <<type>> \o LengthBytes(length)

\* The number a big-endian byte string of at most 3 bytes stands for.
WireNat(bytes) ==
    IF Len(bytes) = 0 THEN 0
    ELSE IF Len(bytes) = 1 THEN bytes[1]
    ELSE IF Len(bytes) = 2 THEN 256 * bytes[1] + bytes[2]
    ELSE 65536 * bytes[1] + 256 * bytes[2] + bytes[3]

\* (8 - length mod 8) mod 8
PadFor(length) == (8 - (length % 8)) % 8

\* m - 1 for a magnitude m >= 1.
Decrement(mag) ==
    LET p == CHOOSE i \in 1..Len(mag) :
                 mag[i] = 1 /\ \A j \in (i + 1)..Len(mag) : mag[j] = 0
    IN Strip(SubSeq(mag, 1, p - 1) \o <<0>> \o Ones(Len(mag) - p))

\* The bits v needs in two's complement: one sign bit and the bits of v, or of
\* -v - 1 when v is negative.
TwosBits(v) == IF v.neg THEN Len(Decrement(v.d)) + 1 ELSE Len(v.d) + 1

\* The smallest strictly positive multiple of 8 bytes holding v.
MinimalLength(v) == 8 * (((TwosBits(v) - 1) \div 64) + 1)

\* v in two's complement, sign-extended to n bytes: the bits of v after zeros, or
\* the complement of the bits of -v - 1 after ones.
SignExtended(v, n) ==
    IF v.neg
    THEN BytesOfBits(Ones(8 * n - Len(Decrement(v.d))) \o Flip(Decrement(v.d)))
    ELSE BytesOfBits(Zeros(8 * n - Len(v.d)) \o v.d)

\* 0 <= v <= 2^32 - 1
InUnsigned32(v) == IsIntLike(v) /\ ~v.neg /\ Len(v.d) <= 32

\* The 4 bytes of an unsigned 32-bit value.
Unsigned32Bytes(v) == BytesOfBits(Zeros(32 - Len(v.d)) \o v.d)

\* The primitive was built in unsigned mode.
UnsignedMode ==
    \/ given.cls = "Integer" /\ ~given.signed
    \/ given.cls = "Enumeration"

\* The value, as an integer, the constructor was given.
GivenInt == PyInt(given.value.neg, given.value.d)

\* -2^(bits-1) <= v <= 2^(bits-1) - 1
InSigned(v, bits) == IsIntLike(v) /\ TwosBits(v) <= bits

\* The bits of the signed format of a class.
SignedBits(cls) == IF cls = "Integer" THEN 32 ELSE 64

\* The primitive was built as a signed Integer or as a LongInteger.
SignedMode ==
    \/ given.cls = "Integer" /\ given.signed
    \/ given.cls = "LongInteger"

\* The value of a primitive on the wire, at the number of bytes n of its body.
WireValue(p, n) ==
    CASE p.cls \in {"TextString", "ByteString"} -> p.value.d
      [] p.cls \in {"Integer", "Enumeration", "Interval"} ->
            IF p.value.neg THEN SignExtended(p.value, 4) ELSE Unsigned32Bytes(p.value)
      [] p.cls = "BigInteger" -> SignExtended(p.value, n)
      [] OTHER -> SignExtended(PyInt(p.value.neg, p.value.d), 8)

\* body is the value of p followed by zero bytes only.
ValueThenPadding(p, body) ==
    LET v == WireValue(p, Len(body))
    IN /\ Len(body) >= Len(v)
       /\ SubSeq(body, 1, Len(v)) = v
       /\ \A i \in (Len(v) + 1)..Len(body) : body[i] = 0

\* s ends with t.
EndsWith(s, t) ==
    Len(s) >= Len(t) /\ SubSeq(s, Len(s) - Len(t) + 1, Len(s)) = t

\* s starts with t.
StartsWith(s, t) == Len(s) >= Len(t) /\ SubSeq(s, 1, Len(t)) = t

\* The positions of write() and of read().
Encoding == {"w_type", "w_length", "w_value"}

Decoding == {"r_tag", "r_type", "r_length", "r_value"}

\* The classes of fixed width, and the length KMIP 9.1 gives each.
FixedWidth ==
    {"Integer", "Enumeration", "Interval", "LongInteger", "DateTime", "Boolean"}

FixedLength(cls) ==
    IF cls \in {"Integer", "Enumeration", "Interval"} THEN 4 ELSE 8

\* The encodings of the stream that follow the first n.
RECURSIVE Following(_)
Following(n) ==
    IF n >= Len(sent) THEN <<>> ELSE sent[n + 1].wr \o Following(n + 1)

\* The pad bytes KMIP 9.1 gives a primitive of a class and length.
PadOf(cls, length) ==
    IF cls \in {"Integer", "Enumeration", "Interval"} THEN 4
    ELSE IF cls \in {"TextString", "ByteString"} THEN PadFor(length)
    ELSE 0

\* The pad bytes' places in the encoding of a primitive as built.
PadPositions(p) ==
    IF p.cls \in {"Integer", "Enumeration", "Interval"} THEN 13..16
    ELSE IF p.cls \in {"TextString", "ByteString"}
    THEN (8 + Len(p.value.d) + 1)..(8 + Len(p.value.d) + PadFor(Len(p.value.d)))
    ELSE {}

\* The channel put a non-zero byte in place of one pad byte of the encoding.
PadTampered ==
    /\ tamper.kind = "overwrite"
    /\ tamper.byte # 0
    /\ tamper.pos \in PadPositions(built)

(***************************************************************************)
(* The claims                                                              *)
(***************************************************************************)

\* C1: value round trip.  Every value a constructor accepts is encoded without an
\* error, and decoding the untouched encoding with a primitive of the same class
\* and tag succeeds with an equal value.
C1_ValueRoundTrip ==
    tamper = NoTamper /\ ~replaced =>
        /\ (pc = "failed" => Len(ops) >= 2)
        /\ (pc = "decoded" /\ ops = <<"encode", "decode">> =>
                obj.value = built.value)

\* C2: byte round trip.  When a decode accepted a byte sequence, encoding the
\* decoded primitive succeeds and writes exactly the bytes the decode consumed.
C2_ByteRoundTrip ==
    Len(ops) >= 2 /\ ~replaced =>
        /\ (ops[Len(ops)] = "decode" => pc # "failed")
        /\ (pc = "written" /\ ops[Len(ops) - 1] = "decode" => wr = rd)

\* C3: a BigInteger is written with the smallest strictly positive multiple of 8
\* bytes that holds it as its length, followed by its two's complement
\* sign-extended to that many bytes.
C3_BigIntegerMinimal ==
    pc = "written" /\ obj.cls = "BigInteger" =>
        wr = Header(obj.tag, Types_BIG_INTEGER, MinimalLength(obj.value))
                 \o SignExtended(obj.value, MinimalLength(obj.value))

\* C4: a TextString or ByteString, built or decoded, is written as its header,
\* then its length value bytes, then (8 - length mod 8) mod 8 zero bytes.
C4_StringFraming ==
    pc = "written" /\ ~replaced /\ obj.cls \in {"TextString", "ByteString"} =>
        wr = Header(obj.tag, obj.type, Len(obj.value.d)) \o obj.value.d
                 \o Zeros(PadFor(Len(obj.value.d)))

\* C5: in unsigned mode the constructor accepts exactly the values of
\* [0, 2^32 - 1] and rejects the others with a range error, and decode accepts
\* every value of the range.
C5_UnsignedRange ==
    UnsignedMode =>
        /\ (pc # "rejected" <=> InUnsigned32(GivenInt))
        /\ (pc = "rejected" => err = "ValueError")
        /\ (given.cls = "Integer" /\ pc = "failed" /\ ~short /\ Len(rd) = 16
                /\ SubSeq(rd, 13, 16) = <<0, 0, 0, 0>> => err # "ValueError")

\* C6: Interval is an unsigned 32-bit Integer under type byte 0x0A: it accepts
\* exactly [0, 2^32 - 1], writes length 4, the 4 value bytes and 4 zero bytes,
\* and decodes the 4 value bytes as unsigned.
C6_IntervalUnsigned ==
    given.cls = "Interval" =>
        /\ (pc # "rejected" <=> InUnsigned32(GivenInt))
        /\ (pc = "written" /\ InUnsigned32(obj.value) =>
                wr = Header(obj.tag, 10, 4) \o Unsigned32Bytes(obj.value)
                         \o <<0, 0, 0, 0>>)
        /\ (pc = "decoded" =>
                ~obj.value.neg /\ Unsigned32Bytes(obj.value) = SubSeq(rd, 9, 12))

\* C7: a decode that got fewer bytes than it asked for fails with ReadValueError
\* and returns no value.
C7_ShortReadIsReadValueError ==
    short => pc = "failed" /\ err = "ReadValueError"

\* C8: the header is read past the tag only when the tag on the stream is the
\* expected one, and past the type only when the type is; every other tag or type
\* value fails with ReadValueError.
C8_HeaderMismatch ==
    /\ (pc = "failed" /\ ops = <<"encode">> /\ ~short /\ Len(rd) = 3 =>
            WireNat(rd) # obj.tag /\ err = "ReadValueError")
    /\ (pc = "failed" /\ ops = <<"encode">> /\ ~short /\ Len(rd) = 4 =>
            rd[4] # obj.type /\ err = "ReadValueError")
    /\ (pc = "r_type" => WireNat(rd) = obj.tag)
    /\ (pc = "r_length" => WireNat(SubSeq(rd, 1, 3)) = obj.tag /\ rd[4] = obj.type)

\* C9: once one pad byte of a valid encoding of a padded primitive (Integer,
\* Enumeration, Interval, TextString, ByteString) is replaced by a non-zero byte,
\* no decode succeeds and the decode fails with ReadValueError.
C9_PaddingMustBeZero ==
    PadTampered =>
        /\ ops = <<"encode">>
        /\ (pc = "failed" => err = "ReadValueError" /\ ~short)

\* C9 witness: a decode of an encoding with a non-zero pad byte has failed.
C9_Witness ==
    PadTampered /\ pc = "failed" /\ err = "ReadValueError" /\ built.cls = "TextString"

\* C10: a lookahead leaves the stream as it was; is_tag_next returns true exactly
\* when 3 bytes are left and are the bytes of the tag, and then a read_tag for
\* that tag takes these 3 bytes and succeeds.
C10_LookaheadNonConsuming ==
    look.op # "none" =>
        /\ stream = look.before
        /\ (look.op = "is_tag_next" =>
                /\ ret = <<Len(look.before) >= 3
                               /\ SubSeq(look.before, 1, 3) = TagBytes(look.arg)>>
                /\ (ret = <<TRUE>> =>
                        LET g == read_tag([obj EXCEPT !.tag = look.arg], stream)
                        IN /\ g.err = "none"
                           /\ Consumed(stream, g.stream) = TagBytes(look.arg)))

\* C10 witness: is_tag_next has returned true on a stream holding an encoding.
C10_Witness ==
    look.op = "is_tag_next" /\ ret = <<TRUE>> /\ Len(stream) >= 8

\* C11: a signed Integer accepts exactly the values of [-2^31, 2^31 - 1] and a
\* LongInteger exactly those of [-2^63, 2^63 - 1]; the others are rejected with a
\* range error, and the primitive, built or decoded, holds a value of the range.
C11_SignedRange ==
    SignedMode =>
        /\ (pc # "rejected" <=> InSigned(GivenInt, SignedBits(given.cls)))
        /\ (pc = "rejected" => err = "ValueError")
        /\ (pc # "rejected" => InSigned(obj.value, SignedBits(obj.cls)))

\* C11 witness: the constructor of a signed Integer has rejected -2^31 - 1.
C11_Witness ==
    /\ given.cls = "Integer" /\ given.signed /\ GivenInt = BelowMin(31)
    /\ pc = "rejected" /\ err = "ValueError"

\* C12: when the value of a TextString, ByteString or BigInteger was assigned in
\* place after construction or decode, the encoding carries the byte count of
\* the new value as its length, the new value, and (8 - length mod 8) mod 8 zero
\* bytes; a BigInteger carries a multiple of 8 bytes holding the new value.
C12_ReencodeFraming ==
    pc = "written" /\ replaced =>
        IF obj.cls = "BigInteger"
        THEN \E n \in {8, 16, 24} :
                 wr = Header(obj.tag, obj.type, n) \o SignExtended(obj.value, n)
        ELSE wr = Header(obj.tag, obj.type, Len(obj.value.d)) \o obj.value.d
                      \o Zeros(PadFor(Len(obj.value.d)))

\* What was written or read at each position of write() and read(): the tag, then
\* the type, then the length, then the value followed by the padding.
C13_Positions ==
    /\ (pc = "w_type" => wr = TagBytes(obj.tag))
    /\ (pc = "w_length" => wr = TagBytes(obj.tag) \o <<obj.type>>)
    /\ (pc = "w_value" => wr = Header(obj.tag, obj.type, obj.length))
    /\ (pc = "written" =>
            /\ StartsWith(wr, Header(obj.tag, obj.type, obj.length))
            /\ ValueThenPadding(obj, SubSeq(wr, 9, Len(wr))))
    /\ (pc \in Encoding \/ (pc = "written" /\ tamper = NoTamper) =>
            EndsWith(stream, wr))
    /\ (pc = "r_tag" => rd = <<>>)
    /\ (pc = "r_type" => rd = TagBytes(obj.tag))
    /\ (pc = "r_length" => rd = TagBytes(obj.tag) \o <<obj.type>>)
    /\ (pc = "r_value" => rd = Header(obj.tag, obj.type, obj.length))
    /\ (pc = "decoded" =>
            /\ StartsWith(rd, Header(obj.tag, obj.type, obj.length))
            /\ ValueThenPadding(obj, SubSeq(rd, 9, Len(rd))))

\* One step of write() only appends to the stream and one step of read() only
\* takes bytes from its front, and the positions follow each other in order.
C13_Step ==
    /\ (pc \in Encoding \cup {"built", "decoded", "assigned"} =>
            StartsWith(stream', stream))
    /\ (pc \in Decoding => EndsWith(stream, stream') /\ StartsWith(rd', rd))
    /\ (pc' = "w_type" => pc \in {"built", "decoded", "assigned"})
    /\ (pc' = "w_length" => pc = "w_type")
    /\ (pc' = "w_value" => pc = "w_length")
    /\ (pc' = "written" => pc \in {"w_value", "written"})
    /\ (pc' = "r_type" => pc = "r_tag")
    /\ (pc' = "r_length" => pc = "r_type")
    /\ (pc' = "r_value" => pc = "r_length")
    /\ (pc' = "decoded" => pc \in {"r_value", "decoded"})

\* C13: during an encode or a decode the stream is accessed in the order tag (3
\* bytes), type (1 byte), length (4 bytes), value, padding; the offset never goes
\* back, and no value or pad byte is read or written before the 8 header bytes.
C13_PositionalOrdering == [](C13_Positions) /\ [][C13_Step]_vars

\* C13 witness: the 24 bytes of TextString "Hello World" were read in order.
C13_Witness ==
    /\ pc = "decoded" /\ obj.cls = "TextString" /\ Len(rd) = 24
    /\ tamper = NoTamper /\ ~replaced

\* C14: after a successful decode of a fixed-width primitive the length read
\* from the header is the length of its class: 4 for Integer, Enumeration and
\* Interval, 8 for LongInteger, DateTime and Boolean.
C14_FixedWidthLength ==
    pc = "decoded" /\ obj.cls \in FixedWidth =>
        /\ obj.length = FixedLength(obj.cls)
        /\ SubSeq(rd, 5, 8) = LengthBytes(FixedLength(obj.cls))

\* C15: when several primitives were encoded one after the other onto one
\* stream, each decode, in the same order by a primitive of the same class and
\* tag, succeeds with the value encoded, takes the 8 + length + pad bytes of its
\* own encoding and leaves the encodings that follow; is_oversized raises
\* StreamNotEmptyError, with the number of bytes left, exactly when bytes are
\* left, and so does not after the last decode.
C15_SequentialFraming ==
    taken > 0 =>
        /\ pc # "failed"
        /\ (pc \in {"decoded", "checked"} =>
                /\ obj.value = sent[taken].built.value
                /\ rd = sent[taken].wr
                /\ Len(rd) = 8 + obj.length + PadOf(obj.cls, obj.length)
                /\ stream = Following(taken))
        /\ (pc = "checked" =>
                /\ (err = "StreamNotEmptyError" <=> taken < Len(sent))
                /\ (err = "none" <=> stream = <<>>)
                /\ is_oversized(stream).err = err
                /\ is_oversized(stream).extra = Len(Following(taken)))

\* C15 witness: TextString "ABCDEFGH", whose encoding has no padding, and the
\* primitive encoded after it were both decoded and the stream is drained.
C15_Witness ==
    /\ taken = 2 /\ Len(sent) = 2 /\ pc = "checked" /\ err = "none"
    /\ sent[1].built.cls = "TextString" /\ Len(sent[1].wr) = 16

====
